---- MODULE Spec2Model ----
(***************************************************************************)
(* Model of the Correction Engine, the script                              *)
(* src/analysis/p_value_correction/p_val_correction.py.                    *)
(*                                                                         *)
(* One behaviour is one run of the script over one file system.  The       *)
(* input document all_pvals.json is a JSON object: a sequence of           *)
(* [key, vals] members, keys distinct, in the order they were written.     *)
(* Raw p-values are written in the document as decimals with two digits;   *)
(* the model holds them as an integer number of hundredths and turns them  *)
(* into exact rationals <<num, den>> when the script converts them to      *)
(* floats.  All arithmetic is exact rational arithmetic.                   *)
(*                                                                         *)
(* The second half models transform_survey_data_to_wide_format of          *)
(* src/create_synthetic_twin_agents/utilities/data_transformer.py: one     *)
(* behaviour is one call of the function over one input directory.  The    *)
(* two programs share nothing; while one runs the other's variables rest.  *)
(***************************************************************************)
EXTENDS Integers, Sequences, FiniteSets, TLC

\* ------------------------------------------------------------------ bounds
\* largest number of tests (pooled length) of an input document
MaxTests == 4

\* largest number of values outside [0,1] in an input document
MaxInvalid == 1

\* largest number of tests of an input document that is run over twice
MaxTestsTwoRuns == 3

\* group names an input document may use
GroupNames == {"A", "B"}

\* raw values an input document may hold, in hundredths: two values outside
\* [0,1] (-0.05 and 1.5) and four inside (0.01, 0.04, 0.2, 0.5)
DocValues == {-5, 1, 4, 20, 50, 150}

\* ------------------------------------------------------ rational arithmetic
Abs(x) == IF x < 0 THEN -x ELSE x

RECURSIVE Gcd(_, _)
Gcd(a, b) == IF b = 0 THEN a ELSE Gcd(b, a % b)

\* the rational n/d (d # 0) in lowest terms with a positive denominator
Rat(n, d) ==
    LET s == IF d < 0 THEN -1 ELSE 1
        g == Gcd(Abs(n), Abs(d))
    IN  <<(s * n) \div g, (s * d) \div g>>

RLeq(a, b) == a[1] * b[2] <= b[1] * a[2]
RLt(a, b) == a[1] * b[2] < b[1] * a[2]
RMul(a, b) == Rat(a[1] * b[1], a[2] * b[2])
RDiv(a, b) == Rat(a[1] * b[2], a[2] * b[1])
RMin(a, b) == IF RLeq(b, a) THEN b ELSE a

\* np.asarray(data[k], dtype=float): a document value (hundredths) as a number
ToFloat(v) == Rat(v, 100)

\* float(...).min() / .max() of a non-empty set of numbers
SetMin(S) == CHOOSE x \in S : \A y \in S : RLeq(x, y)
SetMax(S) == CHOOSE x \in S : \A y \in S : RLeq(y, x)

\* ------------------------------------------------------------ the library
\* alpha=0.05 of the multipletests call and of the summary
Alpha == Rat(5, 100)

\* a numpy array of n elements, element k computed once: the sequence
\* <<f[1], ..., f[n]>>
Array(f, n) == SubSeq(f, 1, n)

\* Argsort without the sort: the values are taken to be sorted already
Argsort_Identity(p) == Array([k \in 1..Len(p) |-> k], Len(p))

\* np.argsort(pvals): sortind[k] is the index of the k-th smallest value;
\* equal values keep their input order (numpy sorts short arrays by insertion)
Argsort(p) ==
    LET n == Len(p)
        pos == Array([i \in 1..n |->
                        1 + Cardinality({j \in 1..n :
                              RLt(p[j], p[i]) \/ (p[j] = p[i] /\ j < i)})], n)
    IN  Array([k \in 1..n |-> CHOOSE i \in 1..n : pos[i] = k], n)

\* _ecdf(x): k/n for k = 1..n
Ecdf(n) == Array([k \in 1..n |-> Rat(k, n)], n)

\* CumMinFrom without the running minimum
CumMinFrom_NoAccumulate(raw, k) == raw[k]

\* np.minimum.accumulate(raw[::-1])[::-1]: running minimum from the largest
\* rank downward
RECURSIVE CumMinFrom(_, _)
CumMinFrom(raw, k) ==
    IF k = Len(raw) THEN raw[k] ELSE RMin(raw[k], CumMinFrom(raw, k + 1))

\* pvals_corrected[pvals_corrected > 1] = 1
ClipOne(x) == IF RLt(<<1, 1>>, x) THEN <<1, 1>> ELSE x

\* StepUp without the step up: only the tests under their own threshold
StepUp_None(reject0) == reject0

\* if reject.any(): rejectmax = max(np.nonzero(reject)[0]);
\* reject[:rejectmax] = True
StepUp(reject0) ==
    LET n == Len(reject0)
        hits == {k \in 1..n : reject0[k]}
        rejectmax == CHOOSE k \in hits : \A j \in hits : j <= k
    IN  Array([k \in 1..n |->
                 IF hits # {} /\ k < rejectmax THEN TRUE ELSE reject0[k]], n)

\* fdrcorrection(pvals_sorted, alpha, method='indep', is_sorted=True)
FdrCorrection(ps, alpha) ==
    LET n == Len(ps)
        ecdffactor == Ecdf(n)
        reject0 == Array([k \in 1..n |->
                            RLeq(ps[k], RMul(ecdffactor[k], alpha))], n)
        reject == StepUp(reject0)
        raw == Array([k \in 1..n |-> RDiv(ps[k], ecdffactor[k])], n)
        corrected == Array([k \in 1..n |-> ClipOne(CumMinFrom(raw, k))], n)
    IN  [reject |-> reject, pvals_corrected |-> corrected]

\* multipletests(all_pvals, method="fdr_bh", alpha=0.05): sort, correct the
\* sorted values, put mask and corrected values back in input order
Multipletests(pvals, alpha) ==
    LET n == Len(pvals)
        sortind == Argsort(pvals)
        ps == Array([k \in 1..n |-> pvals[sortind[k]]], n)
        r == FdrCorrection(ps, alpha)
        rankOf == Array([i \in 1..n |-> CHOOSE k \in 1..n : sortind[k] = i], n)
    IN  [reject |-> Array([i \in 1..n |-> r.reject[rankOf[i]]], n),
         pvals_corrected |->
             Array([i \in 1..n |-> ClipOne(r.pvals_corrected[rankOf[i]])], n)]

\* ------------------------------------------------------- input documents
\* all sequences over S of length at most n
SeqsUpTo(S, n) == UNION {[1..m -> S] : m \in 0..n}

\* the ways to cut the sequence s into m consecutive pieces (empty pieces too)
RECURSIVE Splits(_, _)
Splits(s, m) ==
    IF m = 0 THEN (IF s = <<>> THEN {<<>>} ELSE {})
    ELSE UNION {{<<SubSeq(s, 1, c)>> \o rest :
                    rest \in Splits(SubSeq(s, c + 1, Len(s)), m - 1)} :
                c \in 0..Len(s)}

\* the member names of a JSON object: distinct, in document order
KeyOrders ==
    {ks \in SeqsUpTo(GroupNames, Cardinality(GroupNames)) :
        \A i, j \in 1..Len(ks) : i # j => ks[i] # ks[j]}

\* the positions of p that hold a value outside [0,1]
Invalid(p) == {i \in 1..Len(p) : p[i] < 0 \/ p[i] > 100}

\* doc is a document all_pvals.json may hold: an object of at most MaxTests
\* values in all, at most MaxInvalid of them outside [0,1], cut into groups
\* in every possible way
IsDoc(d) ==
    \E ks \in KeyOrders :
        \E pooled \in SeqsUpTo(DocValues, MaxTests) :
            /\ Cardinality(Invalid(pooled)) <= MaxInvalid
            /\ \E parts \in Splits(pooled, Len(ks)) :
                  d = [g \in 1..Len(ks) |-> [key |-> ks[g], vals |-> parts[g]]]

\* ------------------------------------------------------------------- state
VARIABLES
    pc,                 \* the statement the run is at
    input_exists,       \* os.path.exists(filepath)
    doc,                \* the content of all_pvals.json
    fdr_folder_exists,  \* the directory ./fdr_adjusted exists
    out_adj,            \* the file all_pvals_fdr.json: <<>> or <<content>>
    out_sum,            \* the file all_pvals_fdr_summary.json: <<>> or <<content>>
    data, keys, lengths, all_pvals,
    rejected, pvals_adj_global,
    effective_threshold_raw, min_adj_sig, max_adj_sig, n_sig,
    adjusted_data,
    stdout,             \* the messages printed so far
    attempted,          \* the output files the run has tried to open
    exit_status,        \* -1 while running, then the process's exit status
    prev                \* what the run before this one read and produced

\* the state of a call of transform_survey_data_to_wide_format
VARIABLES
    t_pc,                 \* the statement the call is at
    input_path_exists,    \* os.path.exists(input_path)
    additional_fields,    \* the parameter, after the default of lines 64-73
    listing,              \* os.listdir(input_path): the files, in listing order
    file_no,              \* how many entries of the listing the loop has taken
    all_transformed_data, \* the list of per-file wide tables
    processed_files, skipped_files,
    output_dir_exists,    \* the directory of output_path exists
    output_file,          \* the file at output_path: <<>> or <<table>>
    n_writes,             \* how many times to_csv was called
    raised,               \* the exception the call ended with, "" for none
    result,               \* the value the call returned: <<>> or <<table>>
    read_log,             \* the listing positions handed to pd.read_csv
    origin                \* the listing position each per-file table is of

transformVars == <<t_pc, input_path_exists, additional_fields, listing, file_no,
                   all_transformed_data, processed_files, skipped_files,
                   output_dir_exists, output_file, n_writes, raised, result,
                   read_log, origin>>

vars == <<pc, input_exists, doc, fdr_folder_exists, out_adj, out_sum,
          data, keys, lengths, all_pvals, rejected, pvals_adj_global,
          effective_threshold_raw, min_adj_sig, max_adj_sig, n_sig,
          adjusted_data, stdout, attempted, exit_status, prev, transformVars>>

fsVars == <<input_exists, doc, fdr_folder_exists, out_adj, out_sum>>
loadVars == <<data, keys, lengths, all_pvals>>
testVars == <<rejected, pvals_adj_global>>
sumVars == <<effective_threshold_raw, min_adj_sig, max_adj_sig, n_sig>>

\* Python's None
None == <<>>

Running == -1

\* no call of transform_survey_data_to_wide_format is under way
TransformIdle ==
    /\ t_pc = "idle"
    /\ input_path_exists = FALSE
    /\ additional_fields = <<>>
    /\ listing = <<>>
    /\ file_no = 0
    /\ all_transformed_data = <<>>
    /\ processed_files = 0 /\ skipped_files = 0
    /\ output_dir_exists = FALSE
    /\ output_file = <<>>
    /\ n_writes = 0
    /\ raised = ""
    /\ result = <<>>
    /\ read_log = <<>>
    /\ origin = <<>>

\* the state when the interpreter starts the script: no name is bound yet
\* (None stands for an unbound name, 0 for the unbound counter n_sig); a
\* missing input document has no content; the output directory may be left
\* over from an earlier run
Init ==
    /\ pc = "makedirs"
    /\ \/ input_exists = TRUE /\ IsDoc(doc)
       \/ input_exists = FALSE /\ doc = <<>>
    /\ fdr_folder_exists \in BOOLEAN
    /\ out_adj = <<>>
    /\ out_sum = <<>>
    /\ data = None /\ keys = None /\ lengths = None /\ all_pvals = None
    /\ rejected = None /\ pvals_adj_global = None
    /\ effective_threshold_raw = None /\ min_adj_sig = None
    /\ max_adj_sig = None /\ n_sig = 0
    /\ adjusted_data = None
    /\ stdout = <<>>
    /\ attempted = {}
    /\ exit_status = Running
    /\ prev = None
    /\ TransformIdle

\* np.concatenate(arrays)
RECURSIVE Concatenate(_)
Concatenate(arrays) ==
    IF arrays = <<>> THEN <<>>
    ELSE Head(arrays) \o Concatenate(Tail(arrays))

\* line 10: os.makedirs(fdr_folder, exist_ok=True)
MakeDirs ==
    /\ pc = "makedirs"
    /\ fdr_folder_exists' = TRUE
    /\ pc' = "exists"
    /\ UNCHANGED <<transformVars, prev, input_exists, doc, out_adj, out_sum, loadVars, testVars,
                   sumVars, adjusted_data, stdout, attempted, exit_status>>

\* lines 15-17: the input document is missing: report and exit(1)
InputMissing ==
    /\ pc = "exists"
    /\ ~input_exists
    /\ stdout' = Append(stdout, "File not found")
    /\ exit_status' = 1
    /\ pc' = "exited"
    /\ UNCHANGED <<transformVars, prev, fsVars, loadVars, testVars, sumVars, adjusted_data, attempted>>

\* lines 19-26: load the document, convert every group to floats, pool
Load ==
    /\ pc = "exists"
    /\ input_exists
    /\ data' = doc
    /\ keys' = [g \in 1..Len(doc) |-> doc[g].key]
    /\ LET arrays == [g \in 1..Len(doc) |->
                        [i \in 1..Len(doc[g].vals) |-> ToFloat(doc[g].vals[i])]]
       IN  /\ lengths' = [g \in 1..Len(doc) |-> Len(arrays[g])]
           /\ all_pvals' = Concatenate(arrays)
    /\ pc' = "size"
    /\ UNCHANGED <<transformVars, prev, fsVars, testVars, sumVars, adjusted_data, stdout,
                   attempted, exit_status>>

\* SkipEmpty without the exit: the message is printed and the run goes on
SkipEmpty_FallsThrough ==
    /\ pc = "size"
    /\ Len(all_pvals) = 0
    /\ stdout' = Append(stdout, "Skipping empty")
    /\ rejected' = <<>>
    /\ pvals_adj_global' = <<>>
    /\ pc' = "summary"
    /\ UNCHANGED <<transformVars, prev, fsVars, loadVars, sumVars, adjusted_data, attempted,
                   exit_status>>

\* lines 28-30: nothing pooled: report and exit(1)
SkipEmpty ==
    /\ pc = "size"
    /\ Len(all_pvals) = 0
    /\ stdout' = Append(stdout, "Skipping empty")
    /\ exit_status' = 1
    /\ pc' = "exited"
    /\ UNCHANGED <<transformVars, prev, fsVars, loadVars, testVars, sumVars, adjusted_data, attempted>>

\* StartOf with start never advanced
StartOf_Zero(lens, g) == 0

\* the value of start when the loop of lines 49-51 reaches group g
RECURSIVE StartOf(_, _)
StartOf(lens, g) == IF g = 1 THEN 0 ELSE StartOf(lens, g - 1) + lens[g - 1]

\* the slice of the pooled sequence that came from group g
GroupSlice(pooled, lens, g) ==
    SubSeq(pooled, StartOf(lens, g) + 1, StartOf(lens, g) + lens[g])

\* Correct with one correction per group instead of one for the pooled family
Correct_PerGroup ==
    /\ pc = "size"
    /\ Len(all_pvals) # 0
    /\ LET r == [g \in 1..Len(keys) |->
                   Multipletests(GroupSlice(all_pvals, lengths, g), Alpha)]
       IN  /\ rejected' = Concatenate([g \in 1..Len(keys) |-> r[g].reject])
           /\ pvals_adj_global' =
                  Concatenate([g \in 1..Len(keys) |-> r[g].pvals_corrected])
    /\ pc' = "summary"
    /\ UNCHANGED <<transformVars, prev, fsVars, loadVars, sumVars, adjusted_data, stdout,
                   attempted, exit_status>>

\* lines 28, 33: one Benjamini-Hochberg correction of the pooled family
Correct ==
    /\ pc = "size"
    /\ Len(all_pvals) # 0
    /\ LET r == Multipletests(all_pvals, Alpha)
       IN  /\ rejected' = r.reject
           /\ pvals_adj_global' = r.pvals_corrected
    /\ pc' = "summary"
    /\ UNCHANGED <<transformVars, prev, fsVars, loadVars, sumVars, adjusted_data, stdout,
                   attempted, exit_status>>

\* SignificanceFigures with the smallest significant raw value as threshold
SignificanceFigures_MinThreshold(pvals, rej, adj) ==
    LET sig == {i \in 1..Len(pvals) : rej[i]}
    IN  IF sig # {}
        THEN [effective_threshold_raw |-> SetMin({pvals[i] : i \in sig}),
              min_adj_sig |-> SetMin({adj[i] : i \in sig}),
              max_adj_sig |-> SetMax({adj[i] : i \in sig}),
              n_sig |-> Cardinality(sig)]
        ELSE [effective_threshold_raw |-> None, min_adj_sig |-> None,
              max_adj_sig |-> None, n_sig |-> 0]

\* SignificanceFigures with the threshold taken from the adjusted values
SignificanceFigures_AdjThreshold(pvals, rej, adj) ==
    LET sig == {i \in 1..Len(pvals) : rej[i]}
    IN  IF sig # {}
        THEN [effective_threshold_raw |-> SetMax({adj[i] : i \in sig}),
              min_adj_sig |-> SetMin({adj[i] : i \in sig}),
              max_adj_sig |-> SetMax({adj[i] : i \in sig}),
              n_sig |-> Cardinality(sig)]
        ELSE [effective_threshold_raw |-> None, min_adj_sig |-> None,
              max_adj_sig |-> None, n_sig |-> 0]

\* lines 36-45: the significance figures of the summary
SignificanceFigures(pvals, rej, adj) ==
    LET sig == {i \in 1..Len(pvals) : rej[i]}
    IN  IF sig # {}
        THEN [effective_threshold_raw |-> SetMax({pvals[i] : i \in sig}),
              min_adj_sig |-> SetMin({adj[i] : i \in sig}),
              max_adj_sig |-> SetMax({adj[i] : i \in sig}),
              n_sig |-> Cardinality(sig)]
        ELSE [effective_threshold_raw |-> None, min_adj_sig |-> None,
              max_adj_sig |-> None, n_sig |-> 0]

\* lines 36-45: bind the four names
Summarise ==
    /\ pc = "summary"
    /\ LET f == SignificanceFigures(all_pvals, rejected, pvals_adj_global)
       IN  /\ effective_threshold_raw' = f.effective_threshold_raw
           /\ min_adj_sig' = f.min_adj_sig
           /\ max_adj_sig' = f.max_adj_sig
           /\ n_sig' = f.n_sig
    /\ pc' = "partition"
    /\ UNCHANGED <<transformVars, prev, fsVars, loadVars, testVars, adjusted_data, stdout,
                   attempted, exit_status>>

\* lines 47-51: slice the adjusted sequence back into the groups
Repartition ==
    /\ pc = "partition"
    /\ adjusted_data' =
          [g \in 1..Len(keys) |->
              [key |-> keys[g],
               vals |-> SubSeq(pvals_adj_global, StartOf(lengths, g) + 1,
                               StartOf(lengths, g) + lengths[g])]]
    /\ pc' = "write_adj"
    /\ UNCHANGED <<transformVars, prev, fsVars, loadVars, testVars, sumVars, stdout, attempted,
                   exit_status>>

\* json.dump of a float, an int or None
JNull == [type |-> "null"]
JNumber(x) == [type |-> "number", val |-> x]
JOptional_Zero(x) == IF x = None THEN JNumber(<<0, 1>>) ELSE JNumber(x)
JOptional(x) == IF x = None THEN JNull ELSE JNumber(x)

\* lines 58-65: the summary as json.dump writes it
Summary ==
    [alpha |-> JNumber(Alpha),
     n_tests |-> JNumber(Len(all_pvals)),
     n_significant |-> JNumber(n_sig),
     effective_fdr_threshold_raw |-> JOptional(effective_threshold_raw),
     min_adjusted_p_among_significant |-> JOptional(min_adj_sig),
     max_adjusted_p_among_significant |-> JOptional(max_adj_sig)]

\* lines 53-56: write the adjusted family
WriteAdjusted ==
    /\ pc = "write_adj"
    /\ attempted' = attempted \cup {"adj"}
    /\ out_adj' = <<adjusted_data>>
    /\ stdout' = Append(stdout, "Adjusted p-values written")
    /\ pc' = "write_sum"
    /\ UNCHANGED <<transformVars, prev, input_exists, doc, fdr_folder_exists, out_sum, loadVars,
                   testVars, sumVars, adjusted_data, exit_status>>

\* line 54: open(out_adj, "w") raises: the exception ends the run
WriteAdjustedFails ==
    /\ pc = "write_adj"
    /\ attempted' = attempted \cup {"adj"}
    /\ exit_status' = 1
    /\ pc' = "crashed"
    /\ UNCHANGED <<transformVars, prev, fsVars, loadVars, testVars, sumVars, adjusted_data, stdout>>

\* WriteSummary with the file opened for appending
WriteSummary_Appends ==
    /\ pc = "write_sum"
    /\ attempted' = attempted \cup {"sum"}
    /\ out_sum' = out_sum \o <<Summary>>
    /\ stdout' = Append(stdout, "Summary written")
    /\ exit_status' = 0
    /\ pc' = "done"
    /\ UNCHANGED <<transformVars, prev, input_exists, doc, fdr_folder_exists,
                   out_adj, loadVars, testVars, sumVars, adjusted_data>>

\* lines 58-70: write the summary; the script ends with status 0
WriteSummary ==
    /\ pc = "write_sum"
    /\ attempted' = attempted \cup {"sum"}
    /\ out_sum' = <<Summary>>
    /\ stdout' = Append(stdout, "Summary written")
    /\ exit_status' = 0
    /\ pc' = "done"
    /\ UNCHANGED <<transformVars, prev, input_exists, doc, fdr_folder_exists, out_adj, loadVars,
                   testVars, sumVars, adjusted_data>>

\* line 68: open(out_sum, "w") raises: the exception ends the run
WriteSummaryFails ==
    /\ pc = "write_sum"
    /\ attempted' = attempted \cup {"sum"}
    /\ exit_status' = 1
    /\ pc' = "crashed"
    /\ UNCHANGED <<transformVars, prev, fsVars, loadVars, testVars, sumVars, adjusted_data, stdout>>

Next ==
    \/ MakeDirs
    \/ InputMissing
    \/ Load
    \/ SkipEmpty
    \/ Correct
    \/ Summarise
    \/ Repartition
    \/ WriteAdjusted
    \/ WriteAdjustedFails
    \/ WriteSummary
    \/ WriteSummaryFails

Spec == Init /\ [][Next]_vars

\* --------------------------------------------------------------- two runs
\* the values of a document, pooled in key order
Pooled(d) == Concatenate([g \in 1..Len(d) |-> d[g].vals])

\* a document value is outside [0,1]
OutOfRange(d) == Invalid(Pooled(d)) # {}

\* the script is run a second time after a completed run; in between the
\* input document was rewritten with the same values in the same pooled
\* order, under any group names and group boundaries.  The output files of
\* the first run stay where they are; prev remembers what the first run
\* worked on and produced.
RunAgain ==
    /\ pc = "done"
    /\ prev = <<>>
    /\ prev' = <<[doc |-> doc, all_pvals |-> all_pvals, rejected |-> rejected,
                  pvals_adj_global |-> pvals_adj_global,
                  adjusted |-> out_adj[1], summary |-> out_sum[1]]>>
    /\ \E ks \in KeyOrders :
          \E parts \in Splits(Pooled(doc), Len(ks)) :
              doc' = [g \in 1..Len(ks) |-> [key |-> ks[g], vals |-> parts[g]]]
    /\ pc' = "makedirs"
    /\ data' = None /\ keys' = None /\ lengths' = None /\ all_pvals' = None
    /\ rejected' = None /\ pvals_adj_global' = None
    /\ effective_threshold_raw' = None /\ min_adj_sig' = None
    /\ max_adj_sig' = None /\ n_sig' = 0
    /\ adjusted_data' = None
    /\ stdout' = <<>>
    /\ attempted' = {}
    /\ exit_status' = Running
    /\ UNCHANGED <<transformVars, input_exists, fdr_folder_exists, out_adj,
                   out_sum>>

\* two runs over documents of at most MaxTestsTwoRuns values, all p-values
InitTwoRuns ==
    /\ Init
    /\ ~OutOfRange(doc)
    /\ Len(Pooled(doc)) <= MaxTestsTwoRuns

NextTwoRuns == Next \/ RunAgain

SpecTwoRuns == InitTwoRuns /\ [][NextTwoRuns]_vars

\* ============================== transform_survey_data_to_wide_format
\* ------------------------------------------------------------------ bounds
\* largest number of entries of the input directory
MaxFiles == 2

\* largest number of rows of all the files of the input directory together
MaxRows == 2

\* the agent identifiers and the question identifiers the files may hold
Agents == {"a1", "a2"}
Questions == {"q1", "q2"}

\* question identifiers that are also the name of a column the function
\* adds: the provenance column, the renamed agent identifier
QuestionsNamedLikeColumns == {"q1", "source_file", "PROLIFIC_PID"}

\* the order Python sorts these names in
Lexicographic == <<"PROLIFIC_PID", "a1", "a2", "q1", "q2", "source_file">>

\* the name of the i-th entry of the directory, as a .csv file and otherwise
CsvName == <<"file1.csv", "file2.csv", "file3.csv", "file4.csv">>
OtherName == <<"file1.txt", "file2.txt", "file3.txt", "file4.txt">>

\* the answer and the extraversion score written in the i-th row of a file
AnswerText == <<"3", "4", "5", "6", "7">>
ScoreText == <<"s1", "s2", "s3", "s4", "s5">>

\* the missing-value marker of pandas
NaN == "NaN"

\* --------------------------------------------------------------- the names
PidColumn == "agent.prolific_pid"
QuestionColumn == "scenario.question_name"
AnswerColumn == "answer.question"
ScoreColumn == "agent.extraversion_score"

\* lines 57-62: the default of required_columns
RequiredColumns == <<PidColumn, QuestionColumn, AnswerColumn>>

\* lines 65-73: the default of additional_fields
AdditionalFields ==
    <<PidColumn, ScoreColumn, "agent.agreeableness_score",
      "agent.conscientiousness_score", "agent.neuroticism_score",
      "agent.openness_score">>

\* lines 124-131: column_mapping, as the set of the names it renames and the
\* name each gets
MappedColumns == {AdditionalFields[i] : i \in 1..Len(AdditionalFields)}
ColumnMapping(c) ==
    CASE c = PidColumn -> "PROLIFIC_PID"
      [] c = ScoreColumn -> "extraversion_score"
      [] c = "agent.agreeableness_score" -> "agreeableness_score"
      [] c = "agent.conscientiousness_score" -> "conscientiousness_score"
      [] c = "agent.neuroticism_score" -> "neuroticism_score"
      [] c = "agent.openness_score" -> "openness_score"
      [] OTHER -> c

\* ------------------------------------------------------------------ pandas
\* A table is [index, columns, rows]: the row labels, the column names in
\* order (a name may occur twice), and per row the cells in column order.
Range(q) == {q[i] : i \in 1..Len(q)}

\* the positions of the columns of t named c
Positions(t, c) == {k \in 1..Len(t.columns) : t.columns[k] = c}

\* the cell of row r of t in the column named c, for a name t has once
Cell(t, r, c) == t.rows[r][CHOOSE k \in Positions(t, c) : TRUE]

NameRank(x) == CHOOSE k \in 1..Len(Lexicographic) : Lexicographic[k] = x

\* the names of S in sorted order
Sorted(S) ==
    LET pos(x) == 1 + Cardinality({y \in S : NameRank(y) < NameRank(x)})
    IN  Array([k \in 1..Cardinality(S) |-> CHOOSE x \in S : pos(x) = k],
              Cardinality(S))

\* the elements of q, each once, in the order they first appear
RECURSIVE Unique(_)
Unique(q) ==
    IF q = <<>> THEN <<>>
    ELSE LET front == Unique(SubSeq(q, 1, Len(q) - 1))
         IN  IF q[Len(q)] \in Range(front) THEN front
             ELSE Append(front, q[Len(q)])

\* PivotRaises for a pivot that accepts repeated pairs
PivotRaises_Never(df, index, columns) == FALSE

\* DataFrame.pivot raises ValueError: two rows have the same index and column
PivotRaises(df, index, columns) ==
    \E i \in 1..Len(df.rows) : \E j \in 1..Len(df.rows) :
        /\ i < j
        /\ Cell(df, i, index) = Cell(df, j, index)
        /\ Cell(df, i, columns) = Cell(df, j, columns)

\* the cell of the pivoted table for the index value a and the column c: the
\* value of the row of df with that pair (of the first, for a pivot that
\* accepts repeated pairs), NaN if df has no such row
PivotCell(df, index, columns, values, a, c) ==
    LET hits == {i \in 1..Len(df.rows) :
                    Cell(df, i, index) = a /\ Cell(df, i, columns) = c}
    IN  IF hits = {} THEN NaN
        ELSE Cell(df, CHOOSE i \in hits : \A j \in hits : i <= j, values)

\* DataFrame.pivot(index, columns, values): one row per index value and one
\* column per columns value, both sorted, the cell the value of the one row
\* with that pair, NaN where there is none
Pivot(df, index, columns, values) ==
    LET labels == Sorted({Cell(df, i, index) : i \in 1..Len(df.rows)})
        names == Sorted({Cell(df, i, columns) : i \in 1..Len(df.rows)})
    IN  [index |-> labels,
         columns |-> names,
         rows |-> Array([r \in 1..Len(labels) |->
                     Array([k \in 1..Len(names) |->
                         PivotCell(df, index, columns, values,
                                   labels[r], names[k])], Len(names))],
                   Len(labels))]

\* t[col] = series, series a function from row label to value: the row
\* labelled a gets series[a], NaN if the series has no such label; a column
\* of that name is replaced where it stands, a new one goes last
SetSeries(t, col, series) ==
    LET value(r) == IF t.index[r] \in DOMAIN series
                    THEN series[t.index[r]] ELSE NaN
    IN  IF col \in Range(t.columns)
        THEN [index |-> t.index,
              columns |-> t.columns,
              rows |-> Array([r \in 1..Len(t.rows) |->
                          Array([k \in 1..Len(t.columns) |->
                              IF t.columns[k] = col THEN value(r)
                              ELSE t.rows[r][k]], Len(t.columns))],
                        Len(t.rows))]
        ELSE [index |-> t.index,
              columns |-> Append(t.columns, col),
              rows |-> Array([r \in 1..Len(t.rows) |->
                          Append(t.rows[r], value(r))], Len(t.rows))]

\* SetScalar that writes the row's label where the value belongs
SetScalar_RowLabel(t, col, value) ==
    SetSeries(t, col, [a \in Range(t.index) |-> a])

\* t[col] = value: every row gets the value in column col
SetScalar(t, col, value) ==
    SetSeries(t, col, [a \in Range(t.index) |-> value])

\* GroupFirst taking the value of the first row of the group, missing or not
GroupFirst_FirstRow(df, key, field) ==
    [a \in {Cell(df, i, key) : i \in 1..Len(df.rows)} |->
        LET mine == {i \in 1..Len(df.rows) : Cell(df, i, key) = a}
        IN  Cell(df, CHOOSE i \in mine : \A j \in mine : i <= j, field)]

\* df.groupby(key)[field].first(): for every key value, the first value of
\* field that is not missing among the rows of that key, NaN if all are
GroupFirst(df, key, field) ==
    [a \in {Cell(df, i, key) : i \in 1..Len(df.rows)} |->
        LET mine == {i \in 1..Len(df.rows) :
                        Cell(df, i, key) = a /\ Cell(df, i, field) # NaN}
        IN  IF mine = {} THEN NaN
            ELSE Cell(df, CHOOSE i \in mine : \A j \in mine : i <= j, field)]

\* t.rename(columns=column_mapping): every column under its new name, the
\* cells as they are; two columns may end up with one name
Rename(t) ==
    [index |-> t.index,
     columns |-> Array([k \in 1..Len(t.columns) |->
                          ColumnMapping(t.columns[k])], Len(t.columns)),
     rows |-> t.rows]

\* the column names of t are not all different
HasRepeatedColumn(t) ==
    \E j \in 1..Len(t.columns) : \E k \in 1..Len(t.columns) :
        j # k /\ t.columns[j] = t.columns[k]

\* pd.concat raises InvalidIndexError: the tables do not all have the same
\* columns, so each is reindexed to the combined columns, and the columns of
\* one of them cannot be reindexed because a name occurs twice
ConcatRaises(tables) ==
    /\ \E k \in 1..Len(tables) : tables[k].columns # tables[1].columns
    /\ \E k \in 1..Len(tables) : HasRepeatedColumn(tables[k])

\* the columns of the tables, each once, in order of first appearance
RECURSIVE AllColumns(_)
AllColumns(tables) ==
    IF tables = <<>> THEN <<>>
    ELSE Unique(AllColumns(SubSeq(tables, 1, Len(tables) - 1))
                    \o tables[Len(tables)].columns)

\* the rows of the tables one after the other, reindexed to the columns cols
RECURSIVE StackRows(_, _)
StackRows(tables, cols) ==
    IF tables = <<>> THEN <<>>
    ELSE LET t == Head(tables)
         IN  Array([r \in 1..Len(t.rows) |->
                      Array([k \in 1..Len(cols) |->
                          IF cols[k] \in Range(t.columns)
                          THEN Cell(t, r, cols[k]) ELSE NaN], Len(cols))],
                   Len(t.rows))
             \o StackRows(Tail(tables), cols)

\* the rows of the tables one after the other, as they are
RECURSIVE AppendRows(_)
AppendRows(tables) ==
    IF tables = <<>> THEN <<>>
    ELSE Head(tables).rows \o AppendRows(Tail(tables))

\* Concat that keeps only the columns all the tables have
Concat_CommonColumns(tables) ==
    LET cols == SelectSeq(AllColumns(tables),
                    LAMBDA c : \A k \in 1..Len(tables) :
                                   c \in Range(tables[k].columns))
        rows == StackRows(tables, cols)
    IN  [index |-> Array([r \in 1..Len(rows) |-> r], Len(rows)),
         columns |-> cols,
         rows |-> rows]

\* pd.concat(tables, axis=0, ignore_index=True), where it does not raise: the
\* rows stacked over the union of the columns, NaN where a table has no such
\* column, the row labels replaced by a count; tables that all have the same
\* columns keep them as they are
Concat(tables) ==
    LET same == \A k \in 1..Len(tables) : tables[k].columns = tables[1].columns
        cols == IF same THEN tables[1].columns ELSE AllColumns(tables)
        rows == IF same THEN AppendRows(tables) ELSE StackRows(tables, cols)
    IN  [index |-> Array([r \in 1..Len(rows) |-> r], Len(rows)),
         columns |-> cols,
         rows |-> rows]

\* ------------------------------------------------------- input directories
\* a row of a long-format file: the agent, the question (one of qs), and
\* whether the extraversion score of the row is filled in
RowShapes(qs) == [pid : Agents, q : qs, score : BOOLEAN]

\* what an entry of the directory is: a survey file with or without the
\* score column, a file without the question column, a file pd.read_csv
\* cannot parse, a file whose name does not end in .csv
FileKinds == {"scores", "plain", "noquestion", "unparsable", "other"}

\* the columns pd.read_csv finds in a file of the kind
ColumnsOf(kind) ==
    CASE kind = "scores" -> <<PidColumn, QuestionColumn, AnswerColumn, ScoreColumn>>
      [] kind = "plain" -> <<PidColumn, QuestionColumn, AnswerColumn>>
      [] OTHER -> <<PidColumn, AnswerColumn>>

\* the table pd.read_csv makes of a file of the kind with the rows shapes
RawTable(kind, shapes) ==
    LET cols == ColumnsOf(kind)
        cell(i, c) ==
            CASE c = PidColumn -> shapes[i].pid
              [] c = QuestionColumn -> shapes[i].q
              [] c = AnswerColumn -> AnswerText[i]
              [] OTHER -> IF shapes[i].score THEN ScoreText[i] ELSE NaN
    IN  [index |-> Array([i \in 1..Len(shapes) |-> i], Len(shapes)),
         columns |-> cols,
         rows |-> Array([i \in 1..Len(shapes) |->
                            Array([k \in 1..Len(cols) |-> cell(i, cols[k])],
                                  Len(cols))], Len(shapes))]

\* the i-th entry of a directory
FileOf(i, kind, shapes) ==
    [name |-> IF kind = "other" THEN OtherName[i] ELSE CsvName[i],
     content |-> IF kind = "unparsable" THEN <<>>
                 ELSE <<RawTable(kind, shapes)>>]

\* l is a directory listing with questions of qs: at most MaxFiles entries
\* with at most MaxRows rows in all; a survey file has a row at least, and
\* the rows of a file without score column have no score
IsListing(l, qs) ==
    \E n \in 0..MaxFiles :
        \E kinds \in [1..n -> FileKinds] :
            \E pooled \in SeqsUpTo(RowShapes(qs), MaxRows) :
                \E parts \in Splits(pooled, n) :
                    /\ \A i \in 1..n :
                          /\ kinds[i] \in {"scores", "plain"} <=> parts[i] # <<>>
                          /\ kinds[i] = "plain" =>
                                \A r \in 1..Len(parts[i]) : ~parts[i][r].score
                    /\ l = [i \in 1..n |-> FileOf(i, kinds[i], parts[i])]

\* file_name.endswith('.csv')
EndsWithCsv(name) == name \in Range(CsvName)

\* ------------------------------------------------------------ the function
\* the script of the Correction Engine is not running
EngineIdle ==
    /\ pc = "idle"
    /\ input_exists = FALSE /\ doc = <<>>
    /\ fdr_folder_exists = FALSE
    /\ out_adj = <<>> /\ out_sum = <<>>
    /\ data = None /\ keys = None /\ lengths = None /\ all_pvals = None
    /\ rejected = None /\ pvals_adj_global = None
    /\ effective_threshold_raw = None /\ min_adj_sig = None
    /\ max_adj_sig = None /\ n_sig = 0
    /\ adjusted_data = None
    /\ stdout = <<>>
    /\ attempted = {}
    /\ exit_status = Running
    /\ prev = None

engineVars == <<pc, input_exists, doc, fdr_folder_exists, out_adj, out_sum,
                data, keys, lengths, all_pvals, rejected, pvals_adj_global,
                effective_threshold_raw, min_adj_sig, max_adj_sig, n_sig,
                adjusted_data, stdout, attempted, exit_status, prev>>

\* the state when transform_survey_data_to_wide_format is called with the
\* default required_columns and one of the lists fields as additional_fields
\* on files with questions of qs: the input directory may not exist, the
\* directory of the output file may exist already
TransformCalled(qs, fields) ==
    /\ EngineIdle
    /\ t_pc = "check"
    /\ additional_fields \in fields
    /\ input_path_exists \in BOOLEAN
    /\ IF input_path_exists THEN IsListing(listing, qs) ELSE listing = <<>>
    /\ file_no = 0
    /\ all_transformed_data = <<>>
    /\ processed_files = 0 /\ skipped_files = 0
    /\ output_dir_exists \in BOOLEAN
    /\ output_file = <<>>
    /\ n_writes = 0
    /\ raised = ""
    /\ result = <<>>
    /\ read_log = <<>>
    /\ origin = <<>>

InitTransform == TransformCalled(Questions, {AdditionalFields})

\* lines 118-121: reshaped_data[field] = data.groupby(pid)[field].first(),
\* for the fields data has, in the order of additional_fields
RECURSIVE AttachFields(_, _, _)
AttachFields(reshaped_data, df, fields) ==
    IF fields = <<>> THEN reshaped_data
    ELSE LET field == Head(fields)
             next == IF field \in Range(df.columns)
                     THEN SetSeries(reshaped_data, field,
                                    GroupFirst(df, PidColumn, field))
                     ELSE reshaped_data
         IN  AttachFields(next, df, Tail(fields))

\* lines 105-136: the wide table of one file (astype(str) of line 113 leaves
\* the question names, strings already, as they are)
ReshapeFile(df, file_name) ==
    LET pivoted == Pivot(df, PidColumn, QuestionColumn, AnswerColumn)
        tagged == SetScalar(pivoted, "source_file", file_name)
    IN  Rename(AttachFields(tagged, df, additional_fields))

\* lines 97-98: the required columns data does not have
MissingColumns(df) ==
    {RequiredColumns[k] : k \in 1..Len(RequiredColumns)} \ Range(df.columns)

\* the entry of the listing the loop of line 85 is at
AtFile == t_pc = "loop" /\ file_no < Len(listing)
File == listing[file_no + 1]

\* lines 75-77: the input path does not exist
InputPathMissing ==
    /\ t_pc = "check"
    /\ ~input_path_exists
    /\ t_pc' = "raised"
    /\ raised' = "FileNotFoundError"
    /\ UNCHANGED <<engineVars, input_path_exists, additional_fields, listing, file_no,
                   all_transformed_data, processed_files, skipped_files,
                   output_dir_exists, output_file, n_writes, result,
                   read_log, origin>>

\* lines 75-85: the input path exists; the list and the counters are set up
\* and the directory is listed
StartLoop ==
    /\ t_pc = "check"
    /\ input_path_exists
    /\ t_pc' = "loop"
    /\ all_transformed_data' = <<>>
    /\ processed_files' = 0
    /\ skipped_files' = 0
    /\ UNCHANGED <<engineVars, input_path_exists, additional_fields, listing, file_no,
                   output_dir_exists, output_file, n_writes, raised, result,
                   read_log, origin>>

\* lines 85-87: an entry whose name does not end in .csv is passed over
IgnoreFile ==
    /\ AtFile
    /\ ~EndsWithCsv(File.name)
    /\ file_no' = file_no + 1
    /\ UNCHANGED <<engineVars, t_pc, input_path_exists, additional_fields,
                   listing,
                   all_transformed_data, processed_files, skipped_files,
                   output_dir_exists, output_file, n_writes, raised, result,
                   read_log, origin>>

\* lines 93-103: the file is read and lacks a required column
SkipMissingColumns ==
    /\ AtFile
    /\ EndsWithCsv(File.name)
    /\ File.content # <<>>
    /\ MissingColumns(File.content[1]) # {}
    /\ skipped_files' = skipped_files + 1
    /\ read_log' = Append(read_log, file_no + 1)
    /\ file_no' = file_no + 1
    /\ UNCHANGED <<engineVars, t_pc, input_path_exists, additional_fields,
                   listing,
                   all_transformed_data, processed_files,
                   output_dir_exists, output_file, n_writes, raised, result,
                   origin>>

\* SkipOnError that lets the exception leave the function
SkipOnError_Aborts ==
    /\ AtFile
    /\ EndsWithCsv(File.name)
    /\ \/ File.content = <<>>
       \/ /\ File.content # <<>>
          /\ MissingColumns(File.content[1]) = {}
          /\ PivotRaises(File.content[1], PidColumn, QuestionColumn)
    /\ t_pc' = "raised"
    /\ raised' = "Exception"
    /\ read_log' = Append(read_log, file_no + 1)
    /\ UNCHANGED <<engineVars, input_path_exists, additional_fields, listing, file_no,
                   all_transformed_data, processed_files, skipped_files,
                   output_dir_exists, output_file, n_writes, result, origin>>

\* lines 93-95, 105-110, 142-145: pd.read_csv or data.pivot raises; the
\* exception is caught and the file counted as skipped
SkipOnError ==
    /\ AtFile
    /\ EndsWithCsv(File.name)
    /\ \/ File.content = <<>>
       \/ /\ File.content # <<>>
          /\ MissingColumns(File.content[1]) = {}
          /\ PivotRaises(File.content[1], PidColumn, QuestionColumn)
    /\ skipped_files' = skipped_files + 1
    /\ read_log' = Append(read_log, file_no + 1)
    /\ file_no' = file_no + 1
    /\ UNCHANGED <<engineVars, t_pc, input_path_exists, additional_fields,
                   listing,
                   all_transformed_data, processed_files,
                   output_dir_exists, output_file, n_writes, raised, result,
                   origin>>

\* lines 93-140: the file is read, reshaped and its table appended
ProcessFile ==
    /\ AtFile
    /\ EndsWithCsv(File.name)
    /\ File.content # <<>>
    /\ MissingColumns(File.content[1]) = {}
    /\ ~PivotRaises(File.content[1], PidColumn, QuestionColumn)
    /\ all_transformed_data' =
           Append(all_transformed_data, ReshapeFile(File.content[1], File.name))
    /\ processed_files' = processed_files + 1
    /\ read_log' = Append(read_log, file_no + 1)
    /\ origin' = Append(origin, file_no + 1)
    /\ file_no' = file_no + 1
    /\ UNCHANGED <<engineVars, t_pc, input_path_exists, additional_fields,
                   listing, skipped_files,
                   output_dir_exists, output_file, n_writes, raised, result>>

\* lines 147-149: the loop is over and no file was processed
NoValidData ==
    /\ t_pc = "loop"
    /\ file_no = Len(listing)
    /\ all_transformed_data = <<>>
    /\ t_pc' = "raised"
    /\ raised' = "ValueError"
    /\ UNCHANGED <<engineVars, input_path_exists, additional_fields, listing, file_no,
                   all_transformed_data, processed_files, skipped_files,
                   output_dir_exists, output_file, n_writes, result,
                   read_log, origin>>

\* to_csv(output_path, index=False): the columns and the rows, no row labels
ToCsv(t) == [columns |-> t.columns, rows |-> t.rows]

\* lines 151-152: pd.concat raises and the exception leaves the function
ConcatFails ==
    /\ t_pc = "loop"
    /\ file_no = Len(listing)
    /\ all_transformed_data # <<>>
    /\ ConcatRaises(all_transformed_data)
    /\ t_pc' = "raised"
    /\ raised' = "InvalidIndexError"
    /\ UNCHANGED <<engineVars, input_path_exists, additional_fields, listing, file_no,
                   all_transformed_data, processed_files, skipped_files,
                   output_dir_exists, output_file, n_writes, result,
                   read_log, origin>>

\* lines 151-167: the tables are combined, the output directory is made if
\* it is not there, the combined table is written and returned
Save ==
    /\ t_pc = "loop"
    /\ file_no = Len(listing)
    /\ all_transformed_data # <<>>
    /\ ~ConcatRaises(all_transformed_data)
    /\ LET final_data == Concat(all_transformed_data)
       IN  /\ output_file' = <<ToCsv(final_data)>>
           /\ result' = <<final_data>>
    /\ output_dir_exists' = TRUE
    /\ n_writes' = n_writes + 1
    /\ t_pc' = "returned"
    /\ UNCHANGED <<engineVars, input_path_exists, additional_fields, listing, file_no,
                   all_transformed_data, processed_files, skipped_files,
                   raised, read_log, origin>>

NextTransform ==
    \/ InputPathMissing
    \/ StartLoop
    \/ IgnoreFile
    \/ SkipMissingColumns
    \/ SkipOnError
    \/ ProcessFile
    \/ NoValidData
    \/ Save

SpecTransform == InitTransform /\ [][NextTransform]_vars

\* the same call on files whose questions may be named like the columns the
\* function adds
InitNamedLikeColumns ==
    TransformCalled(QuestionsNamedLikeColumns, {AdditionalFields})

NextNamedLikeColumns == NextTransform \/ ConcatFails

SpecNamedLikeColumns == InitNamedLikeColumns /\ [][NextNamedLikeColumns]_vars

\* lists a caller may pass as additional_fields: none (the default applies),
\* one without the agent identifier, an empty one
FieldLists == {AdditionalFields, <<ScoreColumn>>, <<>>}

\* the same call with any of these lists
InitAnyFields == TransformCalled(Questions, FieldLists)

SpecAnyFields == InitAnyFields /\ [][NextTransform]_vars

\* ================================================================= claims
\* the run has passed the multipletests call of line 33
AfterCorrect ==
    pc \in {"summary", "partition", "write_adj", "write_sum", "done", "crashed"}

\* multipletests has just returned (line 33); rejected and pvals_adj_global
\* are not assigned again
JustCorrected == pc = "summary"

\* the re-partition loop of lines 47-51 has just ended, or the run has ended
\* with both files written; adjusted_data is not assigned again
Repartitioned == pc \in {"write_adj", "done"}

\* the number of document values in the groups before group g
GroupOffset(d, g) == Len(Pooled(SubSeq(d, 1, g - 1)))

\* the message m was printed
Printed(m) == \E i \in 1..Len(stdout) : stdout[i] = m

\* every value of p is in [0,1]
InUnit(p) ==
    \A i \in 1..Len(p) : RLeq(<<0, 1>>, p[i]) /\ RLeq(p[i], <<1, 1>>)

\* the value at ascending rank k of p: fewer than k values are smaller and at
\* least k values are not larger
AscendingValue(p, k) ==
    CHOOSE v \in {p[i] : i \in 1..Len(p)} :
        /\ Cardinality({i \in 1..Len(p) : RLt(p[i], v)}) < k
        /\ k <= Cardinality({i \in 1..Len(p) : RLeq(p[i], v)})

\* p in ascending order
Ascending(p) == SubSeq([k \in 1..Len(p) |-> AscendingValue(p, k)], 1, Len(p))

\* the ranks the test at position i can be given (more than one among equals)
RanksOf(p, i) == {k \in 1..Len(p) : AscendingValue(p, k) = p[i]}

\* x is the least / the largest element of S
IsMinOf(x, S) == x \in S /\ \A y \in S : RLeq(x, y)
IsMaxOf(x, S) == x \in S /\ \A y \in S : RLeq(y, x)

\* the tests the mask flags
Significant == {i \in 1..Len(rejected) : rejected[i]}

\* x (not negative) in ten-thousandths, rounded to the nearest
Round4(x) == (2 * 10000 * x[1] + x[2]) \div (2 * x[2])

\* C1: the adjusted family has the input's group names in the input's key
\* order, every group keeps its length, and value i of group g is the adjusted
\* value of pooled position (offset of g) + i, which is the position of the
\* i-th raw value of g; the file written holds that family.
C1_RepartitionKeepsPositions ==
    /\ Repartitioned =>
        /\ Len(adjusted_data) = Len(doc)
        /\ \A g \in 1..Len(doc) :
              LET offset == GroupOffset(doc, g)
              IN  /\ adjusted_data[g].key = doc[g].key
                  /\ Len(adjusted_data[g].vals) = Len(doc[g].vals)
                  /\ \A i \in 1..Len(doc[g].vals) :
                        /\ all_pvals[offset + i] = ToFloat(doc[g].vals[i])
                        /\ adjusted_data[g].vals[i] = pvals_adj_global[offset + i]
    /\ pc \in {"write_sum", "done"} => out_adj = <<adjusted_data>>

\* a finished run over two groups, the second with two tests, whose first
\* adjusted values differ
C1_Witness ==
    /\ pc = "done"
    /\ Len(doc) = 2
    /\ Len(doc[1].vals) >= 1
    /\ Len(doc[2].vals) >= 2
    /\ adjusted_data[1].vals[1] # adjusted_data[2].vals[1]
    /\ adjusted_data[2].vals[1] # adjusted_data[2].vals[2]

\* C2: for raw p-values in [0,1], the adjusted value of the test at ascending
\* rank k is the minimum over the ranks j >= k of p(j) * n / j, and it sits at
\* the test's position in the pooled input order.
C2_AdjustedIsMinOverLargerRanks ==
    (JustCorrected /\ InUnit(all_pvals)) =>
        LET n == Len(all_pvals)
            p == Ascending(all_pvals)
        IN  \A i \in 1..n :
                \A k \in 1..n :
                    p[k] = all_pvals[i] =>
                        IsMinOf(pvals_adj_global[i],
                                {RMul(p[j], Rat(n, j)) : j \in k..n})

\* a finished run over p-values that are not in ascending order, one of which
\* got the value of a larger rank
C2_Witness ==
    /\ pc = "done"
    /\ InUnit(all_pvals)
    /\ \E i \in 1..Len(all_pvals) : \E j \in 1..Len(all_pvals) :
          i < j /\ RLt(all_pvals[j], all_pvals[i])
    /\ \E i \in 1..Len(all_pvals) :
          \A k \in RanksOf(all_pvals, i) :
              pvals_adj_global[i] # RMul(all_pvals[i], Rat(Len(all_pvals), k))

Example1 ==
    <<[key |-> "A", vals |-> <<1, 50, 20>>], [key |-> "B", vals |-> <<4>>]>>

\* the position of the test at ascending rank k (the values are distinct)
PositionOfRank(p, k) == CHOOSE i \in 1..Len(p) : p[i] = AscendingValue(p, k)

\* the adjusted values (to four decimals) and the mask in ascending raw order
AdjustedAscending ==
    [k \in 1..Len(all_pvals) |->
        Round4(pvals_adj_global[PositionOfRank(all_pvals, k)])]
RejectedAscending ==
    [k \in 1..Len(all_pvals) |-> rejected[PositionOfRank(all_pvals, k)]]

\* C4 as stated: example 1 gives n = 4, adjusted [0.04, 0.08, 0.2667, 0.5],
\* rejected [True, True, False, False], n_significant = 2 and
\* effective_fdr_threshold_raw = 0.04.
C4_Example1AsStated ==
    (pc = "done" /\ doc = Example1) =>
        /\ Len(all_pvals) = 4
        /\ AdjustedAscending = <<400, 800, 2667, 5000>>
        /\ RejectedAscending = <<TRUE, TRUE, FALSE, FALSE>>
        /\ out_sum[1].n_significant = JNumber(2)
        /\ out_sum[1].effective_fdr_threshold_raw = JNumber(Rat(4, 100))

\* C4 amended: example 1 gives n = 4, adjusted [0.04, 0.08, 0.2667, 0.5],
\* rejected [True, False, False, False] (0.08 > 0.05), n_significant = 1 and
\* effective_fdr_threshold_raw = 0.01.
C4_Example1 ==
    (pc = "done" /\ doc = Example1) =>
        /\ Len(all_pvals) = 4
        /\ AdjustedAscending = <<400, 800, 2667, 5000>>
        /\ RejectedAscending = <<TRUE, FALSE, FALSE, FALSE>>
        /\ out_sum[1].n_tests = JNumber(4)
        /\ out_sum[1].n_significant = JNumber(1)
        /\ out_sum[1].effective_fdr_threshold_raw = JNumber(Rat(1, 100))

\* the run over example 1 has written its summary
C4_Witness == pc = "done" /\ doc = Example1 /\ out_sum # <<>>

\* C5: when a test is rejected, the written summary holds the largest raw
\* p-value among the rejected tests, the least and the largest adjusted value
\* among them, their number, and the pooled length.
C5_SummaryOfSignificant ==
    (pc = "done" /\ Significant # {}) =>
        /\ out_sum[1].effective_fdr_threshold_raw.type = "number"
        /\ IsMaxOf(out_sum[1].effective_fdr_threshold_raw.val,
                   {all_pvals[i] : i \in Significant})
        /\ out_sum[1].min_adjusted_p_among_significant.type = "number"
        /\ IsMinOf(out_sum[1].min_adjusted_p_among_significant.val,
                   {pvals_adj_global[i] : i \in Significant})
        /\ out_sum[1].max_adjusted_p_among_significant.type = "number"
        /\ IsMaxOf(out_sum[1].max_adjusted_p_among_significant.val,
                   {pvals_adj_global[i] : i \in Significant})
        /\ out_sum[1].n_significant = JNumber(Cardinality(Significant))
        /\ out_sum[1].n_tests = JNumber(Len(Pooled(doc)))

\* a finished run with rejected tests of different adjusted values, the
\* largest of them not the largest raw value
C5_Witness ==
    /\ pc = "done"
    /\ \E i \in Significant : \E j \in Significant :
          pvals_adj_global[i] # pvals_adj_global[j]
    /\ out_sum[1].effective_fdr_threshold_raw #
           out_sum[1].max_adjusted_p_among_significant
    /\ \E i \in 1..Len(all_pvals) : ~rejected[i]

\* C6 as stated: when no test is rejected, effective_fdr_threshold_raw,
\* min_adjusted_p_among_significant, max_adjusted_p_among_significant and
\* n_significant are all null in the written summary.
C6_AllFourAbsent ==
    (pc = "done" /\ Significant = {}) =>
        /\ out_sum[1].effective_fdr_threshold_raw = JNull
        /\ out_sum[1].min_adjusted_p_among_significant = JNull
        /\ out_sum[1].max_adjusted_p_among_significant = JNull
        /\ out_sum[1].n_significant = JNull

\* C6 amended: when no test is rejected, effective_fdr_threshold_raw,
\* min_adjusted_p_among_significant and max_adjusted_p_among_significant are
\* null in the written summary (not zero or any other number), and
\* n_significant is the number 0.
C6_ThreeAbsentCountZero ==
    (pc = "done" /\ Significant = {}) =>
        /\ out_sum[1].effective_fdr_threshold_raw = JNull
        /\ out_sum[1].min_adjusted_p_among_significant = JNull
        /\ out_sum[1].max_adjusted_p_among_significant = JNull
        /\ out_sum[1].n_significant = JNumber(0)

\* a finished run over several tests, none rejected
C6_Witness ==
    pc = "done" /\ Len(all_pvals) >= 2 /\ Significant = {} /\ out_sum # <<>>

\* the input document is missing or holds no value at all
NothingToCorrect == ~input_exists \/ Len(Pooled(doc)) = 0

\* C7: a run whose input document is missing, or whose mapping is empty, or
\* whose groups are all empty never gets past the two checks, opens no output
\* file and writes none, and the only way it ends is exit status 1; a run
\* that opens or writes an output file has a non-empty pooled family.
C7_NothingToCorrectExits ==
    /\ NothingToCorrect =>
          /\ pc \in {"makedirs", "exists", "size", "exited"}
          /\ attempted = {}
          /\ out_adj = <<>> /\ out_sum = <<>>
          /\ pc = "exited" => exit_status = 1
          /\ pc # "exited" => (exit_status = Running /\ ENABLED Next)
    /\ (attempted # {} \/ out_adj # <<>> \/ out_sum # <<>>) =>
          (input_exists /\ Len(all_pvals) > 0)

\* a run over a document with two groups, both empty, has exited
C7_Witness ==
    /\ pc = "exited"
    /\ input_exists
    /\ Len(doc) = 2
    /\ Printed("Skipping empty")

\* C8 as stated: when the write of the adjusted family has failed, the write
\* of the summary is attempted all the same.
C8_SummaryAttemptedAfterFailure ==
    (exit_status # Running /\ "adj" \in attempted
        /\ ~Printed("Adjusted p-values written")) =>
        "sum" \in attempted

\* C9 as stated: from a family with a value below 0 or above 1 the run never
\* computes or writes adjusted values, and it ends with a failure.
C9_OutOfRangeRefused ==
    (input_exists /\ OutOfRange(doc)) =>
        /\ pvals_adj_global = None
        /\ out_adj = <<>>
        /\ exit_status \in {Running, 1}

\* C10: a second run over a document with the same pooled sequence, under
\* other group names or boundaries, pools the same sequence and gets the same
\* adjusted sequence, the same mask and the same summary of n tests.
C10_GroupingDoesNotMatter ==
    (prev # <<>> /\ AfterCorrect) =>
        /\ all_pvals = prev[1].all_pvals
        /\ pvals_adj_global = prev[1].pvals_adj_global
        /\ rejected = prev[1].rejected
        /\ pc = "done" =>
              /\ out_sum[1] = prev[1].summary
              /\ out_sum[1].n_tests = JNumber(Len(Pooled(doc)))

\* the second run has finished over two groups of several tests cut
\* otherwise than in the first run, some test rejected and some not
C10_Witness ==
    /\ prev # <<>>
    /\ pc = "done"
    /\ Len(doc) = 2
    /\ Len(doc[1].vals) >= 1 /\ Len(doc[2].vals) >= 2
    /\ Significant # {}
    /\ \E i \in 1..Len(all_pvals) : ~rejected[i]

\* C11: listed in ascending order of raw p-value, the adjusted values do not
\* decrease: a test with a smaller raw p-value never has a larger adjusted
\* value.
C11_AdjustedMonotone ==
    JustCorrected =>
        \A i \in 1..Len(all_pvals) : \A j \in 1..Len(all_pvals) :
            RLt(all_pvals[i], all_pvals[j]) =>
                RLeq(pvals_adj_global[i], pvals_adj_global[j])

\* a finished run with two tests of different raw p-values where p * n / rank
\* of the smaller is above that of the larger
C11_Witness ==
    /\ pc = "done"
    /\ \E i \in 1..Len(all_pvals) : \E j \in 1..Len(all_pvals) :
          /\ RLt(all_pvals[i], all_pvals[j])
          /\ \E k \in RanksOf(all_pvals, i) : \E m \in RanksOf(all_pvals, j) :
                RLt(RMul(all_pvals[j], Rat(Len(all_pvals), m)),
                    RMul(all_pvals[i], Rat(Len(all_pvals), k)))

\* C12: a second run over the same input document ends with the same
\* adjusted-family document and the same summary document in the two output
\* files: the first run's content, overwritten by equal content.
C12_SameInputSameOutput ==
    (prev # <<>> /\ pc = "done" /\ doc = prev[1].doc) =>
        /\ out_adj = <<prev[1].adjusted>>
        /\ out_sum = <<prev[1].summary>>

\* the second run over an unchanged document of two groups has finished,
\* some test rejected and some not
C12_Witness ==
    /\ prev # <<>>
    /\ pc = "done"
    /\ doc = prev[1].doc
    /\ Len(doc) = 2
    /\ Len(doc[1].vals) >= 1 /\ Len(doc[2].vals) >= 1
    /\ Significant # {}
    /\ \E i \in 1..Len(all_pvals) : ~rejected[i]

\* C20 as stated: no step of a run whose input document is missing or whose
\* pooled family is empty creates a directory or a file.
C20_NothingCreated ==
    [][NothingToCorrect =>
          /\ fdr_folder_exists' = fdr_folder_exists
          /\ out_adj' = out_adj
          /\ out_sum' = out_sum]_vars

\* ------------------------------------------------ claims on the reshaper
\* the positions up to n of the listing whose name ends in .csv, in order
CsvPositions(n) ==
    SelectSeq(Array([i \in 1..n |-> i], n),
              LAMBDA i : EndsWithCsv(listing[i].name))

\* the i-th entry cannot be parsed
Unparsable(i) == listing[i].content = <<>>

\* the i-th entry is parsed and has no question column
LacksColumn(i) ==
    /\ ~Unparsable(i)
    /\ QuestionColumn \notin Range(listing[i].content[1].columns)

\* the i-th entry has two rows with the same agent and question
HasDuplicate(i) ==
    /\ ~Unparsable(i) /\ ~LacksColumn(i)
    /\ LET rows == listing[i].content[1].rows
       IN  \E r1 \in 1..Len(rows) : \E r2 \in 1..Len(rows) :
               /\ r1 # r2
               /\ Cell(listing[i].content[1], r1, PidColumn)
                     = Cell(listing[i].content[1], r2, PidColumn)
               /\ Cell(listing[i].content[1], r1, QuestionColumn)
                     = Cell(listing[i].content[1], r2, QuestionColumn)

Fails(i) == Unparsable(i) \/ LacksColumn(i) \/ HasDuplicate(i)

\* the call is over
TransformOver == t_pc \in {"returned", "raised"}

Cells(t, r, c) == {t.rows[r][k] : k \in Positions(t, c)}

\* the rows of the table t that name the file name as their source
RowsFrom(t, name) ==
    {r \in 1..Len(t.rows) : name \in Cells(t, r, "source_file")}

Distinct(df, c) == {Cell(df, r, c) : r \in 1..Len(df.rows)}

\* the row of the wide table t that belongs to the agent a
RowsOfAgent(t, a) == {x \in 1..Len(t.rows) : t.index[x] = a}

\* the wide table of every processed file has one row per agent and, for
\* every row (a, q, v) of the file, a column q holding v in the row of a
AnswersKept(qs) ==
    \A k \in 1..Len(all_transformed_data) :
        LET df == listing[origin[k]].content[1]
            t == all_transformed_data[k]
        IN  /\ Len(t.rows) = Cardinality(Distinct(df, PidColumn))
            /\ \A a \in Distinct(df, PidColumn) :
                  Cardinality(RowsOfAgent(t, a)) = 1
            /\ \A r \in 1..Len(df.rows) :
                  Cell(df, r, QuestionColumn) \in qs =>
                      \A x \in RowsOfAgent(t, Cell(df, r, PidColumn)) :
                          Cell(df, r, AnswerColumn)
                              \in Cells(t, x, Cell(df, r, QuestionColumn))

\* C15: for every file without repeated (agent, question) pair, the file's
\* wide table has exactly one row per distinct agent and one column per
\* distinct question, holding the agent's answer to that question, whatever
\* the questions are named, also when one is named like the provenance column.
C15_AnswersKeptWhateverTheName == AnswersKept(QuestionsNamedLikeColumns)

\* C16: the call fails in exactly two cases, with FileNotFoundError before
\* any file is read when the input directory does not exist, and with
\* ValueError after the last entry when no file was processed; a failing
\* call writes no output file and creates no output directory; every other
\* call writes the combined table exactly once, after the last entry.
C16_FailsInExactlyTwoCases ==
    [][/\ t_pc' = "raised" =>
             /\ \/ /\ raised' = "FileNotFoundError"
                   /\ ~input_path_exists
                   /\ read_log' = <<>>
                \/ /\ raised' = "ValueError"
                   /\ input_path_exists
                   /\ file_no' = Len(listing)
                   /\ processed_files' = 0
             /\ output_file' = <<>>
             /\ n_writes' = 0
             /\ output_dir_exists' = output_dir_exists
       /\ t_pc' = "returned" =>
             /\ input_path_exists
             /\ processed_files' > 0
             /\ file_no' = Len(listing)
             /\ output_file' # <<>>
             /\ n_writes' = 1
       /\ t_pc' \notin {"raised", "returned"} =>
             /\ output_file' = <<>>
             /\ n_writes' = 0
             /\ output_dir_exists' = output_dir_exists]_vars

\* how many rows the first k per-file tables have together
RECURSIVE RowsBefore(_)
RowsBefore(k) ==
    IF k = 0 THEN 0
    ELSE RowsBefore(k - 1) + Len(all_transformed_data[k].rows)

\* how many distinct agents the first k processed files have together
RECURSIVE AgentsBefore(_)
AgentsBefore(k) ==
    IF k = 0 THEN 0
    ELSE AgentsBefore(k - 1)
           + Cardinality(Distinct(listing[origin[k]].content[1], PidColumn))

\* the table t is the per-file tables stacked in processing order over the
\* union of their columns, with NaN where a file's table lacks the column,
\* and has one row per processed file and agent of it
IsStacking(t) ==
    LET n == Len(all_transformed_data)
    IN  /\ Len(t.rows) = RowsBefore(n)
        /\ Len(t.rows) = AgentsBefore(n)
        /\ Range(t.columns)
              = UNION {Range(all_transformed_data[k].columns) : k \in 1..n}
        /\ ~HasRepeatedColumn(t)
        /\ \A k \in 1..n :
              LET tk == all_transformed_data[k]
              IN  \A x \in 1..Len(tk.rows) : \A c \in Range(t.columns) :
                      Cell(t, RowsBefore(k - 1) + x, c)
                          = IF c \in Range(tk.columns) THEN Cell(tk, x, c)
                            ELSE NaN
        /\ \A k \in 1..n :
              \A a \in Distinct(listing[origin[k]].content[1], PidColumn) :
                  Cardinality({x \in 1..Len(t.rows) :
                      /\ Cell(t, x, "source_file") = listing[origin[k]].name
                      /\ Cell(t, x, "PROLIFIC_PID") = a}) = 1

\* C17: the combined table, returned and written, is the row-wise stacking
\* of the per-file tables in file processing order: one row per (processed
\* file, agent) pair, as many rows as the processed files have distinct
\* agents together, the union of the per-file columns as columns, the
\* missing marker in a cell whose column the row's file does not have.
C17_CombinedIsStacking ==
    t_pc = "returned" =>
        /\ IsStacking(result[1])
        /\ IsStacking(output_file[1])

\* two processed files whose tables differ in their columns
C17_Witness ==
    /\ t_pc = "returned"
    /\ Len(all_transformed_data) = 2
    /\ Range(all_transformed_data[1].columns)
          \ Range(all_transformed_data[2].columns) # {}
    /\ Range(all_transformed_data[2].columns)
          \ Range(all_transformed_data[1].columns) # {}
    /\ \E x \in 1..Len(result[1].rows) : \E c \in Range(result[1].columns) :
          Cell(result[1], x, c) = NaN

\* the smallest number of the set S
Least(S) == CHOOSE i \in S : \A j \in S : i <= j

\* the rows of df that belong to the agent a
RowsOf(df, a) == {i \in 1..Len(df.rows) : Cell(df, i, PidColumn) = a}

\* the value the field f has in the first row of the agent a
FirstRowValue(df, a, f) == Cell(df, Least(RowsOf(df, a)), f)

\* the first value of the field f among the rows of the agent a that is not
\* missing, the missing marker if there is none
FirstPresentValue(df, a, f) ==
    LET present == {i \in RowsOf(df, a) : Cell(df, i, f) # NaN}
    IN  IF present = {} THEN NaN ELSE Cell(df, Least(present), f)

\* in the wide table of every processed file, the column of every auxiliary
\* field the file has holds Value(file, a, field) in the row of the agent a
AuxiliaryHolds(Value(_, _, _)) ==
    \A k \in 1..Len(all_transformed_data) :
        LET df == listing[origin[k]].content[1]
            t == all_transformed_data[k]
        IN  \A f \in Range(AdditionalFields) \cap Range(df.columns) :
                \A a \in Distinct(df, PidColumn) :
                    \A x \in RowsOfAgent(t, a) :
                        Cells(t, x, ColumnMapping(f)) = {Value(df, a, f)}

\* C18 as first stated: for every auxiliary field a file has and every
\* agent of the file, the agent's row of the wide table holds the value of
\* the field in the agent's first row of the file, also when it is missing
\* there and a later row of the agent has a value.
C18_FirstRowValueKept ==
    TransformOver => AuxiliaryHolds(FirstRowValue)

\* C18: for every auxiliary field a file has and every agent of the file,
\* the agent's row of the wide table holds the first value of the field, in
\* file row order, that is not missing among the agent's rows, and the
\* missing marker only if the field is missing in all of them; so also when
\* the agent's rows disagree.
C18_FirstPresentValueKept ==
    TransformOver => AuxiliaryHolds(FirstPresentValue)

\* a processed file in which an agent's first row has no score and a later
\* row of that agent has one
C18_Witness ==
    /\ TransformOver
    /\ \E k \in 1..Len(all_transformed_data) :
          LET df == listing[origin[k]].content[1]
          IN  /\ ScoreColumn \in Range(df.columns)
              /\ \E a \in Distinct(df, PidColumn) :
                    /\ FirstRowValue(df, a, ScoreColumn) = NaN
                    /\ FirstPresentValue(df, a, ScoreColumn) # NaN

\* the i-th entry was skipped or passed over
NotProcessed(i) == ~EndsWithCsv(listing[i].name) \/ Fails(i)

\* row x of the combined table t is the row of an agent of the i-th entry:
\* it names the entry as its source and holds the agent's answers
RowIsFrom(t, x, i) ==
    LET df == listing[i].content[1]
    IN  /\ Cell(t, x, "source_file") = listing[i].name
        /\ \E a \in Distinct(df, PidColumn) :
              /\ Cell(t, x, "PROLIFIC_PID") = a
              /\ \A r \in RowsOf(df, a) :
                    Cell(t, x, Cell(df, r, QuestionColumn))
                        = Cell(df, r, AnswerColumn)

\* the directory of the example: the first file has the rows (a1, q1, 3) and
\* (a1, q2, 4), the second file has no question column
Example3 ==
    /\ Len(listing) = 2
    /\ EndsWithCsv(listing[1].name) /\ EndsWithCsv(listing[2].name)
    /\ ~Unparsable(1)
    /\ LET df == listing[1].content[1]
       IN  /\ QuestionColumn \in Range(df.columns)
           /\ Len(df.rows) = 2
           /\ Cell(df, 1, PidColumn) = "a1" /\ Cell(df, 2, PidColumn) = "a1"
           /\ Cell(df, 1, QuestionColumn) = "q1"
           /\ Cell(df, 2, QuestionColumn) = "q2"
           /\ Cell(df, 1, AnswerColumn) = "3"
           /\ Cell(df, 2, AnswerColumn) = "4"
    /\ LacksColumn(2)

C21_ThresholdIsCutoff ==
    (pc = "done" /\ Significant # {}) =>
        /\ out_sum[1].effective_fdr_threshold_raw.type = "number"
        /\ \A i \in 1..Len(all_pvals) :
              rejected[i] <=>
                  RLeq(all_pvals[i], out_sum[1].effective_fdr_threshold_raw.val)

\* a family with two rejected tests of different raw values, two tests of
\* equal raw value, and a test that is not rejected
C21_Witness ==
    /\ pc = "done"
    /\ \E i \in Significant : \E j \in Significant :
          all_pvals[i] # all_pvals[j]
    /\ \E i \in 1..Len(all_pvals) : \E j \in 1..Len(all_pvals) :
          i # j /\ all_pvals[i] = all_pvals[j]
    /\ \E i \in 1..Len(all_pvals) : ~rejected[i]

\* ------------------------------------------- claims on additional_fields
\* the names under which a column may hold the agent identifier
AgentColumns == {"PROLIFIC_PID", PidColumn}

\* every row of the table t, the stacking of the per-file tables, holds in a
\* column PROLIFIC_PID or agent.prolific_pid the agent whose row of the
\* file's pivot it is
IdentifiesAgents(t) ==
    \A k \in 1..Len(all_transformed_data) :
        \A x \in 1..Len(all_transformed_data[k].rows) :
            \E c \in AgentColumns \cap Range(t.columns) :
                Cells(t, RowsBefore(k - 1) + x, c)
                    = {all_transformed_data[k].index[x]}

\* C22: whatever additional_fields the caller passes, each row of the
\* returned and of the written combined table identifies the agent it was
\* pivoted from, in a column PROLIFIC_PID or agent.prolific_pid.
C22_AgentIdentifierSurvives ==
    t_pc = "returned" =>
        /\ IdentifiesAgents(result[1])
        /\ IdentifiesAgents(output_file[1])

====
